---- MODULE Spec2Model ----
(***************************************************************************)
(* Model of the ai-chat-bot backend: the token ledger (decrement_tokens    *)
(* and the chat edge function's two charges), and the e-mail OTP flow      *)
(* (send-otp, verify-otp) with its rate limiter.                           *)
(*                                                                         *)
(* Every edge function is a stateless request handler; all shared state    *)
(* lives in database tables.  Each `await` of a handler that touches a     *)
(* table is one step of the handler, so that concurrent requests           *)
(* interleave exactly where the code can be suspended.                     *)
(***************************************************************************)
EXTENDS Integers, Sequences, FiniteSets, TLC

VARIABLES
    profiles,       \* table public.profiles: set of rows [id, user_id, tokens]
    startProfiles,  \* history: the profiles table of the initial state
    dec,            \* callers of decrement_tokens: [DecProcs -> call record]
    chat,           \* chat edge function requests: [ChatProcs -> request record]
    otps,           \* table public.otp_verifications: set of rows
    rate,           \* table public.rate_limit_tracking: set of rows
    authUsers,      \* auth.users: the e-mail addresses that have an account
    clock,          \* wall-clock time, in minutes
    req,            \* OTP requests in flight: [OtpProcs -> request record]
    last,           \* the request record of the last OTP request run to its end
    obs,            \* history: what that request found and what it changed
    hist,           \* history: per e-mail, the series of issuances and of failures,
                    \* and the e-mails whose issuances have overlapped
    nreq,           \* number of OTP requests run so far (where a run bounds it)
    faults          \* number of collaborator failures so far

tokenVars == <<startProfiles, dec, chat>>
otpVars == <<otps, rate, authUsers, clock, req, last, obs, hist, nreq, faults>>
vars == <<profiles, tokenVars, otpVars>>

(***************************************************************************)
(* Bounds of the model.                                                    *)
(***************************************************************************)
MaxTokens == 2
MaxAmount == 2
NumDec == 3
NumChat == 2
NumChatDec == 1
MaxMsgLen == 3
NumOtp == 2
MaxReqPair == 3
MaxReqConc == 3
MaxTimeConc == 15
MaxTime == 35
MaxFaults == 1
MaxReqDay == 6
MaxTimeDay == 1470
MaxTimeWindow == 150
LogCap == 6
MaxStart == 4

Users == {"u1", "u2"}
DecProcs == 1..NumDec
ChatProcs == 1..NumChat
OtpProcs == 1..NumOtp
Amounts == 0..MaxAmount

\* SQL NULL / JS null for numeric columns and results that are never negative
\* when present (timestamps, row ids); token amounts use explicit flags instead.
NULL == -1

(***************************************************************************)
(* Table helpers.                                                          *)
(***************************************************************************)
RowsOf(tbl, u) == {r \in tbl : r.user_id = u}

(***************************************************************************)
(* Mutations of the ledger's WHERE clause used to test the ledger          *)
(* properties: the guard dropped, and the guard made strict.               *)
(***************************************************************************)
DecrementMatchUnguarded(r, u, amount) == r.user_id = u

DecrementMatchStrict(r, u, amount) == r.user_id = u /\ r.tokens > amount

(***************************************************************************)
(* decrement_tokens(_user_id, _amount): one UPDATE ... WHERE tokens >=     *)
(* _amount RETURNING tokens INTO new_balance.  The statement is atomic on  *)
(* the row; a NULL new_balance raises 'Insufficient tokens'.               *)
(***************************************************************************)
\* the WHERE clause of the UPDATE
DecrementMatch(r, u, amount) == r.user_id = u /\ r.tokens >= amount

\* the table after the UPDATE
DecrementUpdate(tbl, u, amount) ==
    {IF DecrementMatch(r, u, amount) THEN [r EXCEPT !.tokens = r.tokens - amount] ELSE r
        : r \in tbl}

\* the values RETURNING can put INTO new_balance: one per updated row
DecrementReturning(tbl, u, amount) ==
    {r.tokens - amount : r \in {x \in tbl : DecrementMatch(x, u, amount)}}

DecIdle == [pc |-> "idle", user |-> "u1", amount |-> 0, raised |-> FALSE,
            ret |-> 0, pre |-> {}, post |-> {}]

\* one call of decrement_tokens, start to finish
decrement_tokens(p, u, amount) ==
    /\ dec[p].pc = "idle"
    /\ LET rets == DecrementReturning(profiles, u, amount)
           after == DecrementUpdate(profiles, u, amount)
       IN  /\ profiles' = (IF rets = {} THEN profiles ELSE after)
           /\ \E v \in (IF rets = {} THEN {0} ELSE rets) :
                dec' = [dec EXCEPT ![p] =
                          [pc |-> "done", user |-> u, amount |-> amount,
                           raised |-> (rets = {}), ret |-> v,
                           pre |-> RowsOf(profiles, u),
                           post |-> RowsOf(profiles', u)]]
    /\ UNCHANGED <<startProfiles, chat, otpVars>>

(***************************************************************************)
(* The chat edge function.  A message is a string, modelled as a sequence  *)
(* of characters over a letter and a blank.                                *)
(***************************************************************************)
Chars == {"a", " "}
Messages == UNION {[1..n -> Chars] : n \in 0..MaxMsgLen}

RECURSIVE TrimLeft(_)
TrimLeft(s) == IF s # <<>> /\ Head(s) = " " THEN TrimLeft(Tail(s)) ELSE s

RECURSIVE TrimRight(_)
TrimRight(s) ==
    IF s # <<>> /\ s[Len(s)] = " " THEN TrimRight(SubSeq(s, 1, Len(s) - 1)) ELSE s

\* String.prototype.trim
Trim(s) == TrimRight(TrimLeft(s))

\* s.split(/\s+/).length: one more than the number of maximal runs of
\* whitespace in s (so "".split(/\s+/) has length 1)
SplitCount(s) ==
    1 + Cardinality({i \in 1..Len(s) : s[i] = " " /\ (i = 1 \/ s[i - 1] # " ")})

\* message.trim().split(/\s+/).length
WordCount(s) == SplitCount(Trim(s))

\* the conversations table: id -> owner; it is only read by the chat function
Conversations == [c \in {"c1", "c2"} |-> IF c = "c1" THEN "u1" ELSE "u2"]
\* conversation ids a request can carry: missing, malformed, a well-formed id
\* of no conversation, and the ids of the two conversations
ConvIds == {"", "not-a-uuid", "c0", "c1", "c2"}
IsUuid(c) == c \in {"c0", "c1", "c2"}
\* what the Authorization header yields: no header, a token getUser rejects,
\* or the user of a valid token
Auths == {"no-header", "bad-token"} \cup Users

MAX_MESSAGE_CHARS == 4000

validateInput(conversationId, message) ==
    IF conversationId = "" THEN "Invalid conversation ID"
    ELSE IF ~IsUuid(conversationId) THEN "Invalid conversation ID format"
    ELSE IF message = <<>> THEN "Message is required"
    ELSE IF Len(Trim(message)) = 0 THEN "Message cannot be empty"
    ELSE IF Len(Trim(message)) > MAX_MESSAGE_CHARS
         THEN "Message too long (max 4000 characters)"
    ELSE ""

ChatIdle == [pc |-> "idle", user |-> "", wordCount |-> 0, tokens |-> 0,
             aiCalled |-> FALSE, aiWordCount |-> 0, status |-> 0, error |-> ""]

ChatRespond(p, status, error) ==
    chat' = [chat EXCEPT ![p].pc = "done", ![p].status = status, ![p].error = error]

ChatStartAnyConversation(p, auth, conversationId, message) ==
    /\ chat[p].pc = "idle"
    /\ IF auth = "no-header" THEN ChatRespond(p, 401, "Authentication required")
       ELSE IF auth = "bad-token" THEN ChatRespond(p, 401, "Invalid authentication")
       ELSE IF validateInput(conversationId, message) # ""
            THEN chat' = [chat EXCEPT ![p].pc = "done", ![p].user = auth,
                                      ![p].status = 400,
                                      ![p].error = validateInput(conversationId, message)]
       ELSE IF conversationId \notin DOMAIN Conversations
            THEN chat' = [chat EXCEPT ![p].pc = "done", ![p].user = auth,
                                      ![p].status = 404,
                                      ![p].error = "Conversation not found"]
       ELSE chat' = [chat EXCEPT ![p].pc = "profile", ![p].user = auth,
                                 ![p].wordCount = WordCount(message)]
    /\ UNCHANGED <<profiles, startProfiles, dec, otpVars>>

\* lines 43-104: authentication, input validation, conversation ownership
ChatStart(p, auth, conversationId, message) ==
    /\ chat[p].pc = "idle"
    /\ IF auth = "no-header" THEN ChatRespond(p, 401, "Authentication required")
       ELSE IF auth = "bad-token" THEN ChatRespond(p, 401, "Invalid authentication")
       ELSE IF validateInput(conversationId, message) # ""
            THEN chat' = [chat EXCEPT ![p].pc = "done", ![p].user = auth,
                                      ![p].status = 400,
                                      ![p].error = validateInput(conversationId, message)]
       ELSE IF conversationId \notin DOMAIN Conversations
            THEN chat' = [chat EXCEPT ![p].pc = "done", ![p].user = auth,
                                      ![p].status = 404,
                                      ![p].error = "Conversation not found"]
       ELSE IF Conversations[conversationId] # auth
            THEN chat' = [chat EXCEPT ![p].pc = "done", ![p].user = auth,
                                      ![p].status = 403, ![p].error = "Access denied"]
       ELSE chat' = [chat EXCEPT ![p].pc = "profile", ![p].user = auth,
                                 ![p].wordCount = WordCount(message)]
    /\ UNCHANGED <<profiles, startProfiles, dec, otpVars>>

InsufficientTokensBelowZero(tokens, wordCount) == tokens < 0

\* the pre-flight balance test of line 124
InsufficientTokens(tokens, wordCount) == tokens < wordCount

\* lines 110-129: select tokens ... .single(), then the balance test
ChatReadProfile(p) ==
    /\ chat[p].pc = "profile"
    /\ LET rows == RowsOf(profiles, chat[p].user) IN
       IF Cardinality(rows) # 1
       THEN ChatRespond(p, 500, "Unable to verify account")
       ELSE LET profile == CHOOSE r \in rows : TRUE IN
            IF InsufficientTokens(profile.tokens, chat[p].wordCount)
            THEN chat' = [chat EXCEPT ![p].pc = "done", ![p].tokens = profile.tokens,
                                      ![p].status = 403,
                                      ![p].error = "Insufficient tokens. Please upgrade your account."]
            ELSE chat' = [chat EXCEPT ![p].pc = "deduct", ![p].tokens = profile.tokens]
    /\ UNCHANGED <<profiles, startProfiles, dec, otpVars>>

\* update({tokens: v}).eq("user_id", u)
SetTokens(tbl, u, v) ==
    {IF r.user_id = u THEN [r EXCEPT !.tokens = v] ELSE r : r \in tbl}

\* lines 131-143: write the balance read earlier minus the message's words
ChatDeduct(p, ok) ==
    /\ chat[p].pc = "deduct"
    /\ IF ok
       THEN /\ profiles' = SetTokens(profiles, chat[p].user,
                                     chat[p].tokens - chat[p].wordCount)
            /\ chat' = [chat EXCEPT ![p].pc = "ai"]
       ELSE /\ profiles' = profiles
            /\ ChatRespond(p, 500, "Unable to process request")
    /\ UNCHANGED <<startProfiles, dec, otpVars>>

ChatCallAIRefunding(p, outcome, reply) ==
    /\ chat[p].pc = "ai"
    /\ CASE outcome = "history-error" ->
              ChatRespond(p, 500, "Unable to load conversation history")
         [] outcome = "no-key" ->
              ChatRespond(p, 500, "Service configuration error")
         [] outcome = "ai-error" ->
              chat' = [chat EXCEPT ![p].pc = "done", ![p].aiCalled = TRUE,
                                   ![p].status = 503,
                                   ![p].error = "AI service temporarily unavailable"]
         [] outcome = "ok" ->
              chat' = [chat EXCEPT ![p].pc = "charge", ![p].aiCalled = TRUE,
                                   ![p].aiWordCount = WordCount(reply)]
    /\ profiles' = (IF outcome = "ok" THEN profiles
                    ELSE SetTokens(profiles, chat[p].user, chat[p].tokens))
    /\ UNCHANGED <<startProfiles, dec, otpVars>>

\* lines 145-205: history fetch, API key, the completion call and its reply
ChatCallAI(p, outcome, reply) ==
    /\ chat[p].pc = "ai"
    /\ CASE outcome = "history-error" ->
              ChatRespond(p, 500, "Unable to load conversation history")
         [] outcome = "no-key" ->
              ChatRespond(p, 500, "Service configuration error")
         [] outcome = "ai-error" ->
              chat' = [chat EXCEPT ![p].pc = "done", ![p].aiCalled = TRUE,
                                   ![p].status = 503,
                                   ![p].error = "AI service temporarily unavailable"]
         [] outcome = "ok" ->
              chat' = [chat EXCEPT ![p].pc = "charge", ![p].aiCalled = TRUE,
                                   ![p].aiWordCount = WordCount(reply)]
    /\ UNCHANGED <<profiles, startProfiles, dec, otpVars>>

\* lines 207-216: write the balance read at pre-flight minus both word
\* counts; an error of this update is only logged
ChatChargeReply(p, ok) ==
    /\ chat[p].pc = "charge"
    /\ profiles' = (IF ok
                    THEN SetTokens(profiles, chat[p].user,
                                   chat[p].tokens - chat[p].wordCount - chat[p].aiWordCount)
                    ELSE profiles)
    /\ chat' = [chat EXCEPT ![p].pc = "save"]
    /\ UNCHANGED <<startProfiles, dec, otpVars>>

\* lines 218-243: store the reply, answer with tokensRemaining
ChatSave(p, ok) ==
    /\ chat[p].pc = "save"
    /\ IF ok THEN ChatRespond(p, 200, "")
       ELSE ChatRespond(p, 500, "Unable to save response")
    /\ UNCHANGED <<profiles, startProfiles, dec, otpVars>>

AIOutcomes == {"history-error", "no-key", "ai-error", "ok"}

(***************************************************************************)
(* The OTP flow: tables, request records and the rate limiter's queries.   *)
(* Times are in minutes.                                                   *)
(***************************************************************************)
RATE_LIMIT_WINDOW_HOURS == 1
MAX_ATTEMPTS_PER_WINDOW == 3
SEND_BLOCK_DURATION_MINUTES == 15
MAX_VERIFY_ATTEMPTS == 5
VERIFY_BLOCK_DURATION_MINUTES == 30
VERIFY_WINDOW_MINUTES == 60
OTP_EXPIRY_MINUTES == 5
OTP_BASE == 100000
OTP_SPAN == 900000
CLEANUP_AGE_HOURS == 24
DEFAULT_TOKENS == 10000

Emails == {"a@b.com", "c@d.com"}
\* what a request can carry as its email: nothing, a malformed address, an address
EmailInputs == {"", "not-an-email"} \cup Emails
\* emailRegex.test(email)
IsEmail(e) == e \in Emails

\* Number.prototype.toString: the decimal digits of n >= 0
RECURSIVE DecimalString(_)
DecimalString(n) == IF n < 10 THEN <<n>> ELSE Append(DecimalString(n \div 10), n % 10)

\* values of Math.floor(Math.random() * 900000): the two ends of its range
OtpDraws == {0, OTP_SPAN - 1}
GenerateOtpWithoutBase(draw) == DecimalString(draw)

\* Math.floor(100000 + Math.random() * 900000).toString()
GenerateOtp(draw) == DecimalString(OTP_BASE + draw)
\* what a verify request can carry as its otp: nothing, "000000", a generated code
OtpInputs == {<<>>, <<0, 0, 0, 0, 0, 0>>} \cup {GenerateOtp(d) : d \in OtpDraws}

NoRow == [id |-> NULL]

\* PostgREST .single(): the row when the query yields exactly one, else null
Single(rows) == IF Cardinality(rows) = 1 THEN CHOOSE r \in rows : TRUE ELSE NoRow

\* .eq(identifier).eq(endpoint).gt("blocked_until", now)
BlockedRows(tbl, identifier, endpoint, now) ==
    {r \in tbl : /\ r.identifier = identifier
                 /\ r.endpoint = endpoint
                 /\ r.blocked_until # NULL
                 /\ r.blocked_until > now}

RecentRowsByFirstAttempt(tbl, identifier, endpoint, windowStart) ==
    {r \in tbl : /\ r.identifier = identifier
                 /\ r.endpoint = endpoint
                 /\ r.first_attempt_at >= windowStart}

\* .eq(identifier).eq(endpoint).gte("last_attempt_at", windowStart)
RecentRows(tbl, identifier, endpoint, windowStart) ==
    {r \in tbl : /\ r.identifier = identifier
                 /\ r.endpoint = endpoint
                 /\ r.last_attempt_at >= windowStart}

\* .order("last_attempt_at", {ascending: false}).limit(1).single(): the rows
\* that can come first (any of those with the greatest last_attempt_at)
MostRecent(rows) ==
    IF rows = {} THEN {NoRow}
    ELSE {r \in rows : \A q \in rows : q.last_attempt_at <= r.last_attempt_at}

\* cleanup_old_rate_limits(): DELETE ... WHERE last_attempt_at < now() - 24 hours
cleanup_old_rate_limits(tbl, now) ==
    {r \in tbl : ~(r.last_attempt_at < now - 60 * CLEANUP_AGE_HOURS)}

\* the ids of the rows a request holds from its earlier queries
HeldIds(l) == {l.recent.id, l.otpData.id} \ {NULL}

\* the database as a request sees it; held: the row ids other requests hold
World(held) == [otps |-> otps, rate |-> rate, authUsers |-> authUsers,
                profiles |-> profiles, held |-> held]

\* gen_random_uuid(): an id that no row has and no request holds
FreshId(w) ==
    LET used == {r.id : r \in w.otps \cup w.rate \cup w.profiles} \cup w.held
    IN  CHOOSE n \in 1..(Cardinality(used) + 1) :
            n \notin used /\ \A m \in 1..(n - 1) : m \in used

ReqIdle == [pc |-> "idle", op |-> "", email |-> "", otp |-> <<>>, now |-> 0,
            at |-> 0, recent |-> NoRow, attemptCount |-> 0, expiresAt |-> 0,
            otpData |-> NoRow, matched |-> 0, failed |-> FALSE, marked |-> FALSE, stored |-> FALSE,
            delivered |-> FALSE, faults |-> 0, status |-> 0, error |-> "", retry |-> 0,
            body |-> {}]

Out(w, l) == [w |-> w, l |-> l]

\* the outcome of a step in which a collaborator failed
Fault(l) == [l EXCEPT !.faults = @ + 1]

\* the JSON body of a response: pairs of a key and the handler's value under it
ErrorBody(error) == {<<"error", error>>}

\* a response; one without an error keeps the body the handler has built
Respond(l, status, error) ==
    [l EXCEPT !.pc = "done", !.status = status, !.error = error,
              !.body = IF error = "" THEN @ ELSE ErrorBody(error)]

RespondBlocked(l, error, minutes) ==
    [l EXCEPT !.pc = "done", !.status = 429, !.error = error, !.retry = minutes,
              !.body = ErrorBody(error)]

\* insert({identifier, endpoint, attempt_count: 1, first_attempt_at, last_attempt_at})
InsertRate(w, identifier, endpoint, now) ==
    [w EXCEPT !.rate = @ \cup {[id |-> FreshId(w), identifier |-> identifier,
                                endpoint |-> endpoint, attempt_count |-> 1,
                                first_attempt_at |-> now, last_attempt_at |-> now,
                                blocked_until |-> NULL]}]

UpdateRateAtomically(w, id, attemptCount, now) ==
    [w EXCEPT !.rate = {IF r.id = id
                        THEN [r EXCEPT !.attempt_count = @ + 1, !.last_attempt_at = now]
                        ELSE r : r \in @}]

UpdateRateKeepCount(w, id, attemptCount, now) ==
    [w EXCEPT !.rate = {IF r.id = id THEN [r EXCEPT !.last_attempt_at = now]
                        ELSE r : r \in @}]

\* update({attempt_count, last_attempt_at}).eq("id", id)
UpdateRate(w, id, attemptCount, now) ==
    [w EXCEPT !.rate = {IF r.id = id
                        THEN [r EXCEPT !.attempt_count = attemptCount,
                                       !.last_attempt_at = now]
                        ELSE r : r \in @}]

UpdateRateBlockedResetsCount(w, id, attemptCount, now, blockedUntil) ==
    [w EXCEPT !.rate = {IF r.id = id
                        THEN [r EXCEPT !.attempt_count = 0,
                                       !.last_attempt_at = now,
                                       !.blocked_until = blockedUntil]
                        ELSE r : r \in @}]

UpdateRateWithoutBlock(w, id, attemptCount, now, blockedUntil) ==
    UpdateRate(w, id, attemptCount, now)

\* update({attempt_count, last_attempt_at, blocked_until}).eq("id", id)
UpdateRateBlocked(w, id, attemptCount, now, blockedUntil) ==
    [w EXCEPT !.rate = {IF r.id = id
                        THEN [r EXCEPT !.attempt_count = attemptCount,
                                       !.last_attempt_at = now,
                                       !.blocked_until = blockedUntil]
                        ELSE r : r \in @}]

(***************************************************************************)
(* verify-otp.  Each operator below is one await of the handler with the   *)
(* synchronous code that follows it; it yields the set of outcomes, each   *)
(* the database after the step and the request's local state.  clk is the  *)
(* wall-clock time at the step.                                            *)
(***************************************************************************)
\* lines 19-34: parse the body, validate, read `now`
VerifyBegin(w, email, otp, clk) ==
    LET l == [ReqIdle EXCEPT !.op = "verify", !.email = email, !.otp = otp, !.now = clk]
    IN  IF email = "" \/ otp = <<>>
        THEN {Out(w, Respond(l, 400, "Email and OTP are required"))}
        ELSE {Out(w, [l EXCEPT !.pc = "v_blocked"])}

V_CheckBlockedIgnored(w, l, clk) == {Out(w, [l EXCEPT !.pc = "v_recent"])}

\* lines 36-51: is the identifier blocked?
V_CheckBlocked(w, l, clk) ==
    LET blockedRecord == Single(BlockedRows(w.rate, l.email, "verify-otp", l.now))
    IN  IF blockedRecord.id # NULL
        THEN {Out(w, RespondBlocked(l, "Too many failed attempts",
                                    blockedRecord.blocked_until - l.now))}
        ELSE {Out(w, [l EXCEPT !.pc = "v_recent"])}

\* lines 53-62: the most recent tracking row inside the window; then line 68
\* reads the clock for the cleanup
V_Recent(w, l, clk) ==
    {Out(w, [l EXCEPT !.pc = "v_cleanup", !.recent = r, !.at = clk]) :
        r \in MostRecent(RecentRows(w.rate, l.email, "verify-otp",
                                    l.now - VERIFY_WINDOW_MINUTES))}

V_CleanupOwnEmail(w, l, clk) ==
    {Out([w EXCEPT !.otps = {r \in @ : ~(r.email = l.email /\ r.expires_at < l.at)}],
         [l EXCEPT !.pc = "v_lookup", !.at = clk])}

\* lines 64-68: delete the expired OTP rows of every email; the result of the
\* delete is not inspected, so the handler goes on whether or not it took
\* effect; then line 77 reads the clock for the lookup
V_Cleanup(w, l, clk) ==
    {Out([w EXCEPT !.otps = {r \in @ : ~(r.expires_at < l.at)}],
         [l EXCEPT !.pc = "v_lookup", !.at = clk]),
     Out(w, Fault([l EXCEPT !.pc = "v_lookup", !.at = clk]))}

OtpMatchesIgnoringExpiry(r, email, otp, at) ==
    /\ r.email = email
    /\ r.otp = otp
    /\ r.verified = FALSE

OtpMatchesIgnoringCode(r, email, otp, at) ==
    /\ r.email = email
    /\ r.verified = FALSE
    /\ r.expires_at > at

OtpMatchesIgnoringVerified(r, email, otp, at) ==
    /\ r.email = email
    /\ r.otp = otp
    /\ r.expires_at > at

\* the filter of the lookup, lines 74-77
OtpMatches(r, email, otp, at) ==
    /\ r.email = email
    /\ r.otp = otp
    /\ r.verified = FALSE
    /\ r.expires_at > at

\* lines 70-80: look the code up
V_Lookup(w, l, clk) ==
    LET rows == {r \in w.otps : OtpMatches(r, l.email, l.otp, l.at)}
        otpData == Single(rows)
        ll == [l EXCEPT !.matched = Cardinality(rows)]
    IN  IF otpData.id = NULL
        THEN {Out(w, [ll EXCEPT !.pc = "v_fail", !.failed = TRUE])}
        ELSE {Out(w, [ll EXCEPT !.pc = "v_mark", !.otpData = otpData])}

V_FailNamingReason(w, l, clk) ==
    {Out(w, Respond(l, 400, IF \E r \in w.otps : r.email = l.email /\ r.otp = l.otp
                            THEN "OTP expired or already used"
                            ELSE "Invalid OTP"))}

VerifyThresholdExceeded(attemptCount) == attemptCount > MAX_VERIFY_ATTEMPTS

\* the threshold test of line 85
VerifyThresholdReached(attemptCount) == attemptCount >= MAX_VERIFY_ATTEMPTS

\* lines 81-126: track the failed attempt
V_Fail(w, l, clk) ==
    IF l.recent.id # NULL
    THEN LET attemptCount == l.recent.attempt_count + 1 IN
         IF VerifyThresholdReached(attemptCount)
         THEN {Out(UpdateRateBlocked(w, l.recent.id, attemptCount, l.now,
                                     l.now + VERIFY_BLOCK_DURATION_MINUTES),
                   RespondBlocked([l EXCEPT !.attemptCount = attemptCount],
                                  "Too many failed attempts",
                                  VERIFY_BLOCK_DURATION_MINUTES))}
         ELSE {Out(UpdateRate(w, l.recent.id, attemptCount, l.now),
                   Respond([l EXCEPT !.attemptCount = attemptCount],
                           400, "Invalid or expired OTP"))}
    ELSE {Out(InsertRate(w, l.email, "verify-otp", l.now),
              Respond([l EXCEPT !.attemptCount = 1], 400, "Invalid or expired OTP"))}

V_MarkToggles(w, l, clk) ==
    {Out([w EXCEPT !.otps = {IF r.id = l.otpData.id THEN [r EXCEPT !.verified = ~@]
                             ELSE r : r \in @}],
         [l EXCEPT !.pc = "v_clear", !.marked = TRUE])}

\* lines 128-132: update({verified: true}).eq("id", otpData.id)
V_Mark(w, l, clk) ==
    {Out([w EXCEPT !.otps = {IF r.id = l.otpData.id THEN [r EXCEPT !.verified = TRUE]
                             ELSE r : r \in @}],
         [l EXCEPT !.pc = "v_clear", !.marked = TRUE])}

V_ClearEveryEndpoint(w, l, clk) ==
    {Out([w EXCEPT !.rate = {r \in @ : r.identifier # l.email}],
         [l EXCEPT !.pc = "v_list"])}

V_ClearNothing(w, l, clk) == {Out(w, [l EXCEPT !.pc = "v_list"])}

\* lines 134-140: delete the tracking row read earlier
V_Clear(w, l, clk) ==
    {Out([w EXCEPT !.rate = {r \in @ : l.recent.id = NULL \/ r.id # l.recent.id}],
         [l EXCEPT !.pc = "v_list"])}

\* lines 142-148: listUsers and the search for the email
V_List(w, l, clk) ==
    IF l.email \in w.authUsers
    THEN {Out(w, [l EXCEPT !.pc = "v_link"])}
    ELSE {Out(w, [l EXCEPT !.pc = "v_create"])}

\* the profiles table takes a row for a user id whether or not the user has
\* one already (the table's definition states no uniqueness)
InsertProfile(w, user_id) ==
    [w EXCEPT !.profiles = @ \cup {[id |-> FreshId(w), user_id |-> user_id,
                                    tokens |-> DEFAULT_TOKENS]}]

\* lines 150-160: createUser; auth.users insert fires on_auth_user_created,
\* which inserts the profile with the default balance.  The call fails when
\* the address got an account meanwhile, or when the auth service fails.
V_Create(w, l, clk) ==
    IF l.email \in w.authUsers
    THEN {Out(w, Respond(l, 500, "An unexpected error occurred"))}
    ELSE {Out(w, Fault(Respond(l, 500, "An unexpected error occurred"))),
          Out(InsertProfile([w EXCEPT !.authUsers = @ \cup {l.email}], l.email),
              [l EXCEPT !.pc = "v_profile"])}

\* lines 162-173: the handler's own profile insert; when it fails the error is
\* only logged
V_Profile(w, l, clk) ==
    {Out(w, [l EXCEPT !.pc = "v_link"]),
     Out(InsertProfile(w, l.email), [l EXCEPT !.pc = "v_link"])}

V_LinkUnmarksOnFailure(w, l, clk) ==
    {Out([w EXCEPT !.otps = {IF r.id = l.otpData.id THEN [r EXCEPT !.verified = FALSE]
                             ELSE r : r \in @}],
         Fault(Respond(l, 500, "An unexpected error occurred"))),
     Out(w, [l EXCEPT !.pc = "v_rpc"])}

\* lines 178-196: generateLink and the tokens read from its action link
V_Link(w, l, clk) ==
    {Out(w, Fault(Respond(l, 500, "An unexpected error occurred"))),
     Out(w, [l EXCEPT !.pc = "v_rpc"])}

\* the body of the success response, lines 202-206
VerifiedBody == {<<"message", "OTP verified successfully">>,
                 <<"access_token", "access_token">>,
                 <<"refresh_token", "refresh_token">>}

\* lines 198-208: cleanup_old_rate_limits, then the session is returned
V_Rpc(w, l, clk) ==
    {Out([w EXCEPT !.rate = cleanup_old_rate_limits(@, clk)],
         Respond([l EXCEPT !.body = VerifiedBody], 200, ""))}

(***************************************************************************)
(* send-otp (the rate-limited handler, lines 15-197).                      *)
(***************************************************************************)
SendBeginUnvalidated(w, email, clk) ==
    {Out(w, [ReqIdle EXCEPT !.op = "send", !.email = email, !.now = clk,
                            !.pc = "s_blocked"])}

\* lines 21-45: parse the body, validate the email, read `now`; an email that
\* is missing or not a string is the empty one here
SendBegin(w, email, clk) ==
    LET l == [ReqIdle EXCEPT !.op = "send", !.email = email, !.now = clk]
    IN  IF email = "" THEN {Out(w, Respond(l, 400, "Valid email is required"))}
        ELSE IF ~IsEmail(email) THEN {Out(w, Respond(l, 400, "Invalid email format"))}
        ELSE {Out(w, [l EXCEPT !.pc = "s_blocked"])}

S_CheckBlockedAfterPurge(w, l, clk) ==
    LET blockedRecord == Single(BlockedRows(w.rate, l.email, "send-otp", l.now))
        purged == [w EXCEPT !.otps = {r \in @ : r.email # l.email}]
    IN  IF blockedRecord.id # NULL
        THEN {Out(purged, RespondBlocked(l, "Too many attempts",
                                         blockedRecord.blocked_until - l.now))}
        ELSE {Out(purged, [l EXCEPT !.pc = "s_recent"])}

\* lines 47-62: is the identifier blocked?
S_CheckBlocked(w, l, clk) ==
    LET blockedRecord == Single(BlockedRows(w.rate, l.email, "send-otp", l.now))
    IN  IF blockedRecord.id # NULL
        THEN {Out(w, RespondBlocked(l, "Too many attempts",
                                    blockedRecord.blocked_until - l.now))}
        ELSE {Out(w, [l EXCEPT !.pc = "s_recent"])}

\* lines 64-73: the most recent tracking row inside the window
S_Recent(w, l, clk) ==
    {Out(w, [l EXCEPT !.pc = "s_record", !.recent = r]) :
        r \in MostRecent(RecentRows(w.rate, l.email, "send-otp",
                                    l.now - 60 * RATE_LIMIT_WINDOW_HOURS))}

SendThresholdReached(attemptCount) == attemptCount >= MAX_ATTEMPTS_PER_WINDOW

\* the threshold test of line 78
SendThresholdExceeded(attemptCount) == attemptCount > MAX_ATTEMPTS_PER_WINDOW

S_RecordNothing(w, l, clk) ==
    {Out(w, [l EXCEPT !.pc = "s_delete", !.otp = GenerateOtp(d),
                      !.expiresAt = clk + OTP_EXPIRY_MINUTES]) : d \in OtpDraws}

\* lines 75-119: count the attempt, block past the threshold; an allowed
\* request then draws its code and computes the expiry from the clock
S_Record(w, l, clk) ==
    IF l.recent.id # NULL /\ SendThresholdExceeded(l.recent.attempt_count + 1)
    THEN {Out(UpdateRateBlocked(w, l.recent.id, l.recent.attempt_count + 1, l.now,
                                l.now + SEND_BLOCK_DURATION_MINUTES),
              RespondBlocked([l EXCEPT !.attemptCount = l.recent.attempt_count + 1],
                             "Too many attempts", SEND_BLOCK_DURATION_MINUTES))}
    ELSE LET w1 == IF l.recent.id # NULL
                   THEN UpdateRate(w, l.recent.id, l.recent.attempt_count + 1, l.now)
                   ELSE InsertRate(w, l.email, "send-otp", l.now)
             n == IF l.recent.id # NULL THEN l.recent.attempt_count + 1 ELSE 1
         IN  {Out(w1, [l EXCEPT !.pc = "s_delete", !.attemptCount = n,
                                !.otp = GenerateOtp(d),
                                !.expiresAt = clk + OTP_EXPIRY_MINUTES]) :
                d \in OtpDraws}

S_DeleteVerifiedOnly(w, l, clk) ==
    {Out([w EXCEPT !.otps = {r \in @ : r.email # l.email \/ ~r.verified}],
         [l EXCEPT !.pc = "s_insert", !.at = clk])}

S_DeleteNothing(w, l, clk) == {Out(w, [l EXCEPT !.pc = "s_insert", !.at = clk])}

\* lines 121-125: delete the OTP rows of this email
S_Delete(w, l, clk) ==
    {Out([w EXCEPT !.otps = {r \in @ : r.email # l.email}],
         [l EXCEPT !.pc = "s_insert", !.at = clk])}

\* lines 127-153: insert the new row (created_at defaults to the database's
\* now()); a failed insert and a missing mail API key end the request
S_Insert(w, l, clk) ==
    {Out(w, Fault(Respond(l, 500, "Failed to generate OTP")))} \cup
    {Out([w EXCEPT !.otps = @ \cup {[id |-> FreshId(w), email |-> l.email,
                                     otp |-> l.otp, expires_at |-> l.expiresAt,
                                     verified |-> FALSE, created_at |-> clk]}],
         ll) :
        ll \in {Fault(Respond([l EXCEPT !.stored = TRUE], 500,
                              "Email service not configured")),
                [l EXCEPT !.stored = TRUE, !.pc = "s_mail"]}}

\* lines 155-178: resend.emails.send; it resolves to {data, error} and the
\* handler does not look at either
S_Mail(w, l, clk) ==
    {Out(w, [l EXCEPT !.pc = "s_rpc", !.delivered = TRUE]),
     Out(w, Fault([l EXCEPT !.pc = "s_rpc", !.delivered = FALSE]))}

\* lines 180-186: cleanup_old_rate_limits, then the success response
S_Rpc(w, l, clk) ==
    {Out([w EXCEPT !.rate = cleanup_old_rate_limits(@, clk)],
         Respond([l EXCEPT !.body = {<<"message", "OTP sent successfully to your email">>}],
                 200, ""))}

(***************************************************************************)
(* A request's next step, and a request run from its start to its end with *)
(* no other request in between.                                            *)
(***************************************************************************)
StepSet(w, l, clk) ==
    CASE l.pc = "v_blocked" -> V_CheckBlocked(w, l, clk)
      [] l.pc = "v_recent"  -> V_Recent(w, l, clk)
      [] l.pc = "v_cleanup" -> V_Cleanup(w, l, clk)
      [] l.pc = "v_lookup"  -> V_Lookup(w, l, clk)
      [] l.pc = "v_fail"    -> V_Fail(w, l, clk)
      [] l.pc = "v_mark"    -> V_Mark(w, l, clk)
      [] l.pc = "v_clear"   -> V_Clear(w, l, clk)
      [] l.pc = "v_list"    -> V_List(w, l, clk)
      [] l.pc = "v_create"  -> V_Create(w, l, clk)
      [] l.pc = "v_profile" -> V_Profile(w, l, clk)
      [] l.pc = "v_link"    -> V_Link(w, l, clk)
      [] l.pc = "v_rpc"     -> V_Rpc(w, l, clk)
      [] l.pc = "s_blocked" -> S_CheckBlocked(w, l, clk)
      [] l.pc = "s_recent"  -> S_Recent(w, l, clk)
      [] l.pc = "s_record"  -> S_Record(w, l, clk)
      [] l.pc = "s_delete"  -> S_Delete(w, l, clk)
      [] l.pc = "s_insert"  -> S_Insert(w, l, clk)
      [] l.pc = "s_mail"    -> S_Mail(w, l, clk)
      [] l.pc = "s_rpc"     -> S_Rpc(w, l, clk)

\* the outcomes of running the request x to its response at time clk
RECURSIVE RunToEnd(_, _)
RunToEnd(x, clk) ==
    IF x.l.pc = "done" THEN {x}
    ELSE UNION {RunToEnd(y, clk) : y \in StepSet(x.w, x.l, clk)}

\* the request x run up to one of the steps named in stops, or to its
\* response when it ends before
RECURSIVE RunUntil(_, _, _)
RunUntil(x, clk, stops) ==
    IF x.l.pc \in stops \cup {"done"} THEN {x}
    ELSE UNION {RunUntil(y, clk, stops) : y \in StepSet(x.w, x.l, clk)}

\* write a step's database back
Store(w) ==
    /\ otps' = w.otps
    /\ rate' = w.rate
    /\ authUsers' = w.authUsers
    /\ profiles' = w.profiles

(***************************************************************************)
(* Requests served one after the other: each action is a whole handler.    *)
(* max > 0 bounds the number of requests of a run (0: no bound); at most   *)
(* MaxFaults collaborator failures happen in a run.                        *)
(***************************************************************************)
\* the count (capped at LogCap) and the first time of a series of requests,
\* with one more at time t
Logged(log, t) ==
    IF log.n = 0 THEN [n |-> 1, first |-> t]
    ELSE [log EXCEPT !.n = IF @ < LogCap THEN @ + 1 ELSE @]
NoLog == [n |-> 0, first |-> 0]

\* blocked_until values that the request wrote
NewBlocks(before, after) ==
    {r.blocked_until : r \in {a \in after : /\ a.blocked_until # NULL
                                             /\ \A b \in before : b.id = a.id =>
                                                    b.blocked_until # a.blocked_until}}

\* what the request x, run on the current state, found and changed
Observe(x, endpoint, series) ==
    [replay |-> <<x.l.email, x.l.otp>> \in hist.consumed,
     blocked |-> \E r \in rate : /\ r.identifier = x.l.email
                                  /\ r.endpoint = endpoint
                                  /\ r.blocked_until # NULL
                                  /\ r.blocked_until > clock,
     hadLive |-> \E r \in otps : /\ r.email = x.l.email /\ ~r.verified
                                  /\ r.expires_at > clock,
     hadCorrect |-> \E r \in otps : /\ r.email = x.l.email /\ ~r.verified
                                     /\ r.expires_at > clock /\ r.otp = x.l.otp,
     hadRow |-> \E r \in otps : r.email = x.l.email,
     window |-> {[id |-> r.id, attempt_count |-> r.attempt_count] :
                    r \in {q \in rate : /\ q.identifier = x.l.email
                                        /\ q.endpoint = endpoint
                                        /\ q.last_attempt_at >=
                                              clock - VERIFY_WINDOW_MINUTES}},
     hadAccount |-> x.l.email \in authUsers,
     otpsSame |-> x.w.otps = otps,
     rateSame |-> x.w.rate = rate,
     accountsSame |-> x.w.authUsers = authUsers /\ x.w.profiles = profiles,
     newBlocks |-> NewBlocks(rate, x.w.rate),
     series |-> series]

NoObs == [replay |-> FALSE, blocked |-> FALSE, hadLive |-> FALSE, hadCorrect |-> FALSE,
          hadRow |-> FALSE, window |-> {}, hadAccount |-> FALSE,
          otpsSame |-> TRUE, rateSame |-> TRUE, accountsSame |-> TRUE,
          newBlocks |-> {}, series |-> NoLog]

Finish(x, max) ==
    /\ faults + x.l.faults <= MaxFaults
    /\ Store(x.w)
    /\ last' = x.l
    /\ nreq' = IF max = 0 THEN nreq ELSE nreq + 1
    /\ faults' = faults + x.l.faults
    /\ UNCHANGED <<tokenVars, clock, req>>

\* send-otp, from request to response
SendOtp(email, max) ==
    /\ max = 0 \/ nreq < max
    /\ \E b \in SendBegin(World({}), email, clock) : \E x \in RunToEnd(b, clock) :
        /\ Finish(x, max)
        /\ hist' = [hist EXCEPT
              !.sends = IF x.l.status = 400 THEN @
                        ELSE [@ EXCEPT ![email] = Logged(@, clock)],
              !.consumed = IF x.l.stored THEN {c \in @ : c[1] # email} ELSE @]
        /\ obs' = Observe(x, "send-otp",
                          IF x.l.status = 400 THEN NoLog ELSE hist'.sends[email])

\* verify-otp, from request to response
VerifyOtp(email, otp, max) ==
    /\ max = 0 \/ nreq < max
    /\ \E b \in VerifyBegin(World({}), email, otp, clock) : \E x \in RunToEnd(b, clock) :
        /\ Finish(x, max)
        /\ hist' = [hist EXCEPT
              !.fails = IF x.l.marked THEN [@ EXCEPT ![email] = NoLog]
                        ELSE IF x.l.failed THEN [@ EXCEPT ![email] = Logged(@, clock)]
                        ELSE @,
              !.consumed = IF x.l.marked THEN @ \cup {<<email, otp>>} ELSE @]
        /\ obs' = Observe(x, "verify-otp",
                          IF x.l.failed THEN hist'.fails[email] ELSE NoLog)

\* time passes
Tick(d, max) ==
    /\ clock + d <= max
    /\ clock' = clock + d
    /\ UNCHANGED <<profiles, tokenVars, otps, rate, authUsers, req, last,
                   obs, hist, nreq, faults>>

(***************************************************************************)
(* Requests served concurrently: the handlers of the callers in OtpProcs    *)
(* interleave at their awaits, each step being one call to the database or *)
(* to an outside service.                                                  *)
(***************************************************************************)
AllHeld == UNION {HeldIds(req[q]) : q \in OtpProcs}

\* a request arrives and is served by the first free worker: the handler runs
\* up to its first await
ReqArrive(p, b) ==
    /\ nreq < MaxReqConc
    /\ req[p].pc \in {"idle", "done"}
    /\ \A q \in OtpProcs : q < p => req[q].pc \notin {"idle", "done"}
    /\ req' = [req EXCEPT ![p] = b.l]
    /\ nreq' = nreq + 1
    /\ UNCHANGED <<profiles, tokenVars, otps, rate, authUsers, clock, last,
                   obs, hist, faults>>

SendArrive(p, email) == \E b \in SendBegin(World(AllHeld), email, clock) : ReqArrive(p, b)

VerifyArrive(p, email, otp) ==
    \E b \in VerifyBegin(World(AllHeld), email, otp, clock) : ReqArrive(p, b)

\* the send-otp request of p is about to purge the records of its email while
\* another send-otp request for the email has purged and not yet inserted
PurgeOverlaps(p) ==
    /\ req[p].pc = "s_delete"
    /\ \E q \in OtpProcs \ {p} : req[q].pc = "s_insert" /\ req[q].email = req[p].email

\* the handler of p resumes and runs up to its next await or to its response
ReqStep(p) ==
    /\ req[p].pc \notin {"idle", "done"}
    /\ \E y \in StepSet(World(AllHeld), req[p], clock) :
        /\ faults + (y.l.faults - req[p].faults) <= MaxFaults
        /\ Store(y.w)
        /\ req' = [req EXCEPT ![p] = y.l]
        /\ faults' = faults + (y.l.faults - req[p].faults)
    /\ hist' = [hist EXCEPT !.raced = IF PurgeOverlaps(p) THEN @ \cup {req[p].email}
                                      ELSE @]
    /\ UNCHANGED <<tokenVars, clock, last, obs, nreq>>

(***************************************************************************)
(* Initial states.                                                         *)
(***************************************************************************)
\* every user has at most one profile row (a profile can be deleted by its
\* owner), with a balance that is not negative
InitProfiles ==
    \E has \in [Users -> BOOLEAN], bal \in [Users -> 0..MaxTokens] :
        profiles = {[id |-> u, user_id |-> u, tokens |-> bal[u]] : u \in {x \in Users : has[x]}}

\* no OTP issued, no attempt tracked, no account, time 0
InitOtpTables ==
    /\ otps = {}
    /\ rate = {}
    /\ authUsers = {}
    /\ clock = 0
    /\ req = [p \in OtpProcs |-> ReqIdle]
    /\ last = ReqIdle
    /\ obs = NoObs
    /\ hist = [sends |-> [e \in EmailInputs |-> NoLog], fails |-> [e \in EmailInputs |-> NoLog],
               consumed |-> {}, raced |-> {}]
    /\ nreq = 0
    /\ faults = 0

InitLedger ==
    /\ InitProfiles
    /\ startProfiles = profiles
    /\ dec = [p \in DecProcs |-> DecIdle]
    /\ chat = [p \in ChatProcs |-> ChatIdle]
    /\ InitOtpTables

InitOtp ==
    /\ profiles = {}
    /\ startProfiles = {}
    /\ dec = [p \in DecProcs |-> DecIdle]
    /\ chat = [p \in ChatProcs |-> ChatIdle]
    /\ InitOtpTables

TickSteps == {VERIFY_BLOCK_DURATION_MINUTES}

\* the verify requests refused by validation: no email, no otp
VerifyInvalid == {<<"", GenerateOtp(0)>>, <<"a@b.com", <<>> >>}
OtpCodes == OtpInputs \ {<<>>}

\* OTP requests of two addresses served one at a time, time passing in between
NextOtpSeq ==
    \/ \E e \in EmailInputs : SendOtp(e, MaxReqPair)
    \/ \E e \in Emails, c \in OtpCodes : VerifyOtp(e, c, MaxReqPair)
    \/ \E v \in VerifyInvalid : VerifyOtp(v[1], v[2], MaxReqPair)
    \/ \E d \in TickSteps : Tick(d, MaxTime)

SpecOtpSeq == InitOtp /\ [][NextOtpSeq]_vars

\* any number of requests, all for one address
NextOtpOne ==
    \/ \E e \in {"", "a@b.com"} : SendOtp(e, 0)
    \/ \E c \in OtpCodes : VerifyOtp("a@b.com", c, 0)
    \/ Tick(VERIFY_BLOCK_DURATION_MINUTES, MaxTime)

SpecOtpOne == InitOtp /\ [][NextOtpOne]_vars

\* requests for one address over more than a day: time passes by the age at
\* which cleanup_old_rate_limits deletes a record, and by half an hour after
TickDay ==
    \E d \in {60 * CLEANUP_AGE_HOURS, VERIFY_BLOCK_DURATION_MINUTES} :
        /\ d = VERIFY_BLOCK_DURATION_MINUTES => clock >= 60 * CLEANUP_AGE_HOURS
        /\ Tick(d, MaxTimeDay)

NextOtpDay ==
    \/ SendOtp("a@b.com", MaxReqDay)
    \/ \E c \in {GenerateOtp(0), <<0, 0, 0, 0, 0, 0>>} : VerifyOtp("a@b.com", c, MaxReqDay)
    \/ TickDay

SpecOtpDay == InitOtp /\ [][NextOtpDay]_vars

\* issuance requests for one address spread over more than the rate-limit
\* window, half an hour passing at a time
NextOtpWindow ==
    \/ SendOtp("a@b.com", 0)
    \/ Tick(VERIFY_BLOCK_DURATION_MINUTES, MaxTimeWindow)

SpecOtpWindow == InitOtp /\ [][NextOtpWindow]_vars

\* concurrent OTP requests for one address, time passing in between
NextOtp ==
    \/ \E p \in OtpProcs : SendArrive(p, "a@b.com")
    \/ \E p \in OtpProcs : VerifyArrive(p, "a@b.com", GenerateOtp(0))
    \/ \E p \in OtpProcs : ReqStep(p)
    \/ Tick(SEND_BLOCK_DURATION_MINUTES, MaxTimeConc)

SpecOtp == InitOtp /\ [][NextOtp]_vars

\* calls of decrement_tokens by any callers on any accounts, in any order
NextLedger ==
    \E p \in DecProcs, u \in Users, a \in Amounts : decrement_tokens(p, u, a)

SpecLedger == InitLedger /\ [][NextLedger]_vars

\* chat turns of any users, interleaved at their awaits, together with direct
\* calls of decrement_tokens
NextChat ==
    \/ \E p \in ChatProcs, auth \in Auths :
            \* the body is read only from an authenticated request, the message
            \* only next to a well-formed conversation id
            \E c \in (IF auth \in Users THEN ConvIds ELSE {""}) :
                \E m \in (IF IsUuid(c) THEN Messages ELSE {<<>>}) :
                    ChatStart(p, auth, c, m)
    \/ \E p \in ChatProcs : ChatReadProfile(p)
    \/ \E p \in ChatProcs, ok \in BOOLEAN : ChatDeduct(p, ok)
    \/ \E p \in ChatProcs, o \in AIOutcomes :
            \E m \in (IF o = "ok" THEN Messages ELSE {<<>>}) : ChatCallAI(p, o, m)
    \/ \E p \in ChatProcs, ok \in BOOLEAN : ChatChargeReply(p, ok)
    \/ \E p \in ChatProcs, ok \in BOOLEAN : ChatSave(p, ok)
    \/ \E p \in 1..NumChatDec, u \in Users, a \in Amounts : decrement_tokens(p, u, a)

SpecChat == InitLedger /\ [][NextChat]_vars

\* one user with a profile and any starting balance, no request yet
InitTurns ==
    /\ \E b \in 0..MaxStart :
          profiles = {[id |-> "u1", user_id |-> "u1", tokens |-> b]}
    /\ startProfiles = profiles
    /\ dec = [p \in DecProcs |-> DecIdle]
    /\ chat = [p \in ChatProcs |-> ChatIdle]
    /\ InitOtpTables

\* chat turns of user u1 in the conversation u1 owns, interleaved at their
\* awaits, with every database call and the completion call succeeding
NextTurns ==
    \/ \E p \in ChatProcs, m \in Messages : ChatStart(p, "u1", "c1", m)
    \/ \E p \in ChatProcs : ChatReadProfile(p)
    \/ \E p \in ChatProcs : ChatDeduct(p, TRUE)
    \/ \E p \in ChatProcs, m \in Messages : ChatCallAI(p, "ok", m)
    \/ \E p \in ChatProcs : ChatChargeReply(p, TRUE)
    \/ \E p \in ChatProcs : ChatSave(p, TRUE)

SpecTurns == InitTurns /\ [][NextTurns]_vars

(***************************************************************************)
(* Chat metering properties (checked under SpecChat).                      *)
(***************************************************************************)
RECURSIVE SumWordCount(_)
SumWordCount(P) ==
    IF P = {} THEN 0
    ELSE LET p == CHOOSE q \in P : TRUE IN chat[p].wordCount + SumWordCount(P \ {p})

\* the turns of user u that passed the pre-flight balance test and got as far
\* as the completion call
TurnsReachingAI(u) == {p \in ChatProcs : chat[p].user = u /\ chat[p].aiCalled}

\* C3: in every reachable state, after any chat turns and decrement calls from
\* non-negative balances, every user's token balance is >= 0.
C3_BalanceNeverNegative == \A r \in profiles : r.tokens >= 0

\* C4: for every user, the word counts of the user messages of the turns that
\* passed the balance test and reached the completion call add up to no more
\* than the balance the user started with, whatever the interleaving.
C4_PreflightNeverOverdraws ==
    \A u \in Users : \A r \in RowsOf(startProfiles, u) :
        SumWordCount(TurnsReachingAI(u)) <= r.tokens

InsufficientError == "Insufficient tokens. Please upgrade your account."

\* the turn of p reads, in this step, a balance smaller than its word count
ReadsShortBalance(p) ==
    /\ chat[p].pc = "profile"
    /\ chat'[p] # chat[p]
    /\ \E r \in profiles : /\ RowsOf(profiles, chat[p].user) = {r}
                            /\ r.tokens < chat[p].wordCount

\* C21: a chat turn whose user-message word count exceeds the balance read at
\* pre-flight is rejected with insufficient-balance (403) in that very step,
\* which leaves the profiles table as it was; the turn never calls the AI
\* completion and takes no further step.
C21_ShortBalanceRejectsTurn ==
    /\ [][\A p \in ChatProcs :
            ReadsShortBalance(p) =>
                /\ chat'[p].pc = "done" /\ chat'[p].status = 403
                /\ chat'[p].error = InsufficientError
                /\ ~chat'[p].aiCalled
                /\ profiles' = profiles]_vars
    /\ [](\A p \in ChatProcs :
            chat[p].error = InsufficientError =>
                /\ chat[p].pc = "done" /\ ~chat[p].aiCalled
                /\ chat[p].tokens < chat[p].wordCount)

\* a turn was rejected on a balance that is positive but too small, and the
\* balance is still what the turn read
C21_Witness ==
    \E p \in ChatProcs :
        /\ chat[p].pc = "done" /\ chat[p].error = InsufficientError
        /\ chat[p].tokens > 0 /\ ~chat[p].aiCalled
        /\ \E r \in profiles : r.user_id = chat[p].user /\ r.tokens = chat[p].tokens

\* the request is one the claim wants rejected: no valid authentication,
\* invalid input, a missing conversation, or a conversation of another user
ToBeRejected(auth, conversationId, message) ==
    \/ auth \notin Users
    \/ validateInput(conversationId, message) # ""
    \/ conversationId \notin DOMAIN Conversations
    \/ Conversations[conversationId] # auth

RejectionErrors ==
    {"Authentication required", "Invalid authentication", "Invalid conversation ID",
     "Invalid conversation ID format", "Message is required", "Message cannot be empty",
     "Message too long (max 4000 characters)", "Conversation not found", "Access denied"}

\* the requests a client can make, as NextChat enumerates them
ChatInputs ==
    {<<auth, c, m>> : auth \in Auths \ Users, c \in {""}, m \in {<<>>}}
    \cup {<<auth, c, m>> : auth \in Users, c \in ConvIds \ {"c0", "c1", "c2"}, m \in {<<>>}}
    \cup {<<auth, c, m>> : auth \in Users, c \in {"c0", "c1", "c2"}, m \in Messages}

RejectedInputs == {i \in ChatInputs : ToBeRejected(i[1], i[2], i[3])}

\* C37: a chat request without valid authentication, with invalid input, for
\* a missing conversation, or for a conversation owned by another user is
\* rejected in its first step (401, 400, 404, 403) with no balance changed
\* and no AI call made, and takes no further step: a first step that lets
\* the request go on is the step of no such request.  A request that goes on
\* is bound to an authenticated caller, and every later step of it leaves
\* the balances of all other users as they were.
C37_RejectedRequestChargesNobody ==
    /\ [][\A p \in ChatProcs :
            /\ (chat[p].pc = "idle" /\ chat'[p].pc # "idle") =>
                  IF chat'[p].pc = "done"
                  THEN /\ chat'[p].status \in {400, 401, 403, 404}
                       /\ chat'[p].error \in RejectionErrors
                       /\ ~chat'[p].aiCalled
                       /\ profiles' = profiles
                  ELSE /\ \A i \in RejectedInputs : ~ChatStart(p, i[1], i[2], i[3])
                       /\ chat'[p].user \in Users
                       /\ profiles' = profiles
            /\ chat[p].pc # "idle" =>
                  /\ chat'[p].user = chat[p].user
                  /\ chat'[p] # chat[p] =>
                        \A r \in profiles : r.user_id # chat[p].user => r \in profiles']_vars
    /\ [](\A p \in ChatProcs :
            chat[p].error \in RejectionErrors =>
                /\ chat[p].pc = "done" /\ ~chat[p].aiCalled
                /\ chat[p].wordCount = 0 /\ chat[p].tokens = 0)

\* a request of a user with a positive balance for the conversation of
\* another user was refused, and no balance has changed
C37_Witness ==
    \E p \in ChatProcs :
        /\ chat[p].pc = "done" /\ chat[p].status = 403
        /\ chat[p].error = "Access denied" /\ ~chat[p].aiCalled
        /\ profiles = startProfiles
        /\ \E r \in profiles : r.user_id = chat[p].user /\ r.tokens > 0

\* the errors a turn can end with once its pre-flight charge is written
SaveError == "Unable to save response"
PostDeductionErrors ==
    {"Unable to load conversation history", "Service configuration error",
     "AI service temporarily unavailable", SaveError}

\* the turn of p ends in failure in this step, after its pre-flight charge
FailsAfterDeduction(p) ==
    /\ chat[p].pc \in {"ai", "charge", "save"}
    /\ chat'[p].pc = "done"
    /\ chat'[p].status # 200

\* p is the only request made so far: no other turn, no decrement call
SoleTurn(p) ==
    /\ \A q \in ChatProcs \ {p} : chat[q].pc = "idle"
    /\ \A d \in DecProcs : dec[d].pc = "idle"

\* C36: the step in which a chat turn fails after its pre-flight deduction
\* (history fetch error, missing key or failure of the AI collaborator, reply
\* save error) writes no balance, and the failed turn takes no further step;
\* so with no other request around, the balance after the failure is the
\* starting balance less the user-message word count (less the reply's
\* words too when the failure is the save error after a written reply
\* charge): nothing is given back.
C36_PreflightChargeNotRefunded ==
    /\ [][\A p \in ChatProcs :
            /\ FailsAfterDeduction(p) =>
                  /\ profiles' = profiles
                  /\ chat'[p].error \in PostDeductionErrors
            /\ chat[p].pc = "done" => chat'[p] = chat[p]]_vars
    /\ [](\A p \in ChatProcs :
            (chat[p].pc = "done" /\ chat[p].error \in PostDeductionErrors
                /\ SoleTurn(p)) =>
                \E r \in startProfiles, q \in profiles :
                    /\ r.user_id = chat[p].user /\ q.user_id = chat[p].user
                    /\ \/ q.tokens = r.tokens - chat[p].wordCount
                       \/ /\ chat[p].error = SaveError
                          /\ q.tokens = r.tokens - chat[p].wordCount
                                                  - chat[p].aiWordCount)

\* a lone turn failed at the AI collaborator and the balance is the starting
\* balance less the words of the user message
C36_Witness ==
    \E p \in ChatProcs :
        /\ chat[p].pc = "done" /\ chat[p].status = 503 /\ SoleTurn(p)
        /\ chat[p].wordCount > 0
        /\ \E r \in startProfiles, q \in profiles :
              /\ r.user_id = chat[p].user /\ q.user_id = chat[p].user
              /\ q.tokens = r.tokens - chat[p].wordCount

(***************************************************************************)
(* Concurrent turns of one user (checked under SpecTurns).                 *)
(***************************************************************************)
\* what the turns in P are to be charged: the words of the user message plus
\* the words of the reply, for each
RECURSIVE SumCharges(_)
SumCharges(P) ==
    IF P = {} THEN 0
    ELSE LET p == CHOOSE q \in P : TRUE
         IN  chat[p].wordCount + chat[p].aiWordCount + SumCharges(P \ {p})

CompletedTurns(u) ==
    {p \in ChatProcs : chat[p].pc = "done" /\ chat[p].user = u /\ chat[p].status = 200}

\* every turn begun so far has completed successfully
AllTurnsCompleted ==
    \A p \in ChatProcs :
        chat[p].pc = "idle" \/ (chat[p].pc = "done" /\ chat[p].status = 200)

\* C35: after any interleaving of chat turns of one user that all complete
\* successfully, and whose charges the starting balance covers, the stored
\* balance equals the starting balance minus the sum, over those turns, of
\* the user-message word count plus the reply word count.
C35_NoChargeLost ==
    \A r \in startProfiles :
        (AllTurnsCompleted /\ SumCharges(CompletedTurns(r.user_id)) <= r.tokens) =>
            \E q \in profiles :
                /\ q.user_id = r.user_id
                /\ q.tokens = r.tokens - SumCharges(CompletedTurns(r.user_id))

(***************************************************************************)
(* Token ledger properties (checked under SpecLedger).                     *)
(***************************************************************************)
DoneCallsOn(u) == {p \in DecProcs : dec[p].pc = "done" /\ dec[p].user = u}

\* the user's balance in the initial state is exactly a, and every call made
\* on that user so far asked for a
AllCallsForWholeBalance(u, a) ==
    /\ \E r \in startProfiles : RowsOf(startProfiles, u) = {r} /\ r.tokens = a
    /\ DoneCallsOn(u) # {}
    /\ \A p \in DoneCallsOn(u) : dec[p].amount = a

\* C1: whatever the order in which any number of decrement(u, a) calls against
\* a balance of exactly a (a > 0) take effect, exactly one of them succeeds and
\* returns 0, every other one raises insufficient-balance, and the balance
\* ends at 0.
C1_ExactlyOneDecrementSucceeds ==
    \A u \in Users, a \in 1..MaxAmount :
        AllCallsForWholeBalance(u, a) =>
            /\ Cardinality({p \in DoneCallsOn(u) : ~dec[p].raised}) = 1
            /\ \A p \in DoneCallsOn(u) : ~dec[p].raised => dec[p].ret = 0
            /\ \A r \in RowsOf(profiles, u) : r.tokens = 0

\* at least two calls raced for a balance equal to their amount
C1_Witness ==
    \E u \in Users, a \in 1..MaxAmount :
        /\ AllCallsForWholeBalance(u, a)
        /\ Cardinality(DoneCallsOn(u)) >= 2

\* C2: decrement(u, amount) with amount >= 0 on a balance b: when b >= amount
\* the balance becomes b - amount and b - amount is returned; when b < amount
\* the call raises insufficient-balance and the balance is unchanged.
C2_DecrementContract ==
    \A p \in DecProcs :
        (dec[p].pc = "done" /\ dec[p].amount >= 0) =>
            \A r \in dec[p].pre :
                IF r.tokens >= dec[p].amount
                THEN /\ ~dec[p].raised
                     /\ dec[p].ret = r.tokens - dec[p].amount
                     /\ dec[p].post = {[r EXCEPT !.tokens = r.tokens - dec[p].amount]}
                ELSE /\ dec[p].raised
                     /\ dec[p].post = dec[p].pre

\* one call was refused on a short balance and another one was applied
C2_Witness ==
    \E p, q \in DecProcs :
        /\ dec[p].pc = "done" /\ dec[p].raised
        /\ \E r \in dec[p].pre : r.tokens < dec[p].amount
        /\ dec[q].pc = "done" /\ ~dec[q].raised /\ dec[q].amount > 0

(***************************************************************************)
(* One-time code properties of requests served one after the other         *)
(* (checked under SpecOtpOne): last is the request just served, obs what   *)
(* it found and changed.                                                   *)
(***************************************************************************)
InvalidOrExpired(l) == l.status = 400 /\ l.error = "Invalid or expired OTP"

\* the request passed validation and the block check and counted its attempt
ReachedRecordAttempt(l) ==
    \/ l.op = "send" /\ l.attemptCount >= 1
    \/ l.op = "verify" /\ l.failed

\* the request set a block or answered that the caller is blocked
AnsweredBlocked == last.status = 429 \/ obs.newBlocks # {}

\* an unverified, unexpired row holding the submitted code
CorrectCodeStored(l) ==
    \E r \in otps : /\ r.email = l.email /\ r.otp = l.otp
                    /\ ~r.verified /\ r.expires_at > l.now

\* C5 as stated: once verify(email, code) has succeeded, every later verify
\* with the same pair, no code having been issued to the email in between,
\* fails as invalid-or-expired.
C5_ReplayIsInvalidOrExpired ==
    (last.op = "verify" /\ obs.replay) => InvalidOrExpired(last)

\* C5 amended: once verify(email, code) has succeeded, every later verify with
\* the same pair, no code having been issued to the email in between, fails and
\* marks nothing: as invalid-or-expired, or as rate-limited when the caller is
\* blocked on arrival or this failure brings the attempt count to 5.
C5_ReplayNeverSucceeds ==
    (last.op = "verify" /\ obs.replay) =>
        /\ ~last.marked
        /\ obs.otpsSame \/ last.failed
        /\ \/ InvalidOrExpired(last)
           \/ /\ last.status = 429
              /\ obs.blocked \/ last.attemptCount >= MAX_VERIFY_ATTEMPTS

C5_Witness ==
    /\ last.op = "verify" /\ obs.replay /\ last.failed
    /\ InvalidOrExpired(last)
    /\ \E r \in otps : r.email = last.email /\ r.otp = last.otp /\ r.verified

\* C8: of the send-otp requests for one identifier, starting with no record,
\* the first three within the hour are allowed and each stores its code unless
\* the store or the mail set-up fails; the 4th is answered 429 and sets
\* blocked_until to its time plus 15 minutes.
C8_FourthSendIsBlocked ==
    (last.op = "send" /\ last.status # 400) =>
        /\ obs.series.n \in 1..MAX_ATTEMPTS_PER_WINDOW =>
              /\ ~AnsweredBlocked
              /\ last.faults = 0 =>
                    /\ last.status = 200 /\ last.stored
                    /\ \E r \in otps : /\ r.email = last.email /\ r.otp = last.otp
                                       /\ ~r.verified
                                       /\ r.expires_at = last.expiresAt
        /\ obs.series.n = MAX_ATTEMPTS_PER_WINDOW + 1 =>
              /\ last.status = 429 /\ ~last.stored /\ obs.otpsSame
              /\ obs.newBlocks = {last.now + SEND_BLOCK_DURATION_MINUTES}

C8_Witness ==
    /\ last.op = "send" /\ obs.series.n = MAX_ATTEMPTS_PER_WINDOW + 1
    /\ last.status = 429
    /\ \E r \in rate : /\ r.identifier = last.email /\ r.endpoint = "send-otp"
                       /\ r.attempt_count = MAX_ATTEMPTS_PER_WINDOW + 1
                       /\ r.blocked_until = last.now + SEND_BLOCK_DURATION_MINUTES
    /\ \E r \in otps : r.email = last.email /\ ~r.verified

\* C9: the 5th failed verification in a row for one identifier, starting with
\* no record, is answered 429 and sets blocked_until to its time plus 30
\* minutes; a verify request arriving while blocked_until > now is answered 429
\* and marks nothing, even with the correct unexpired code.
C9_FifthFailureBlocksVerify ==
    last.op = "verify" =>
        /\ (last.failed /\ obs.series.n = MAX_VERIFY_ATTEMPTS) =>
              /\ last.status = 429
              /\ obs.newBlocks = {last.now + VERIFY_BLOCK_DURATION_MINUTES}
        /\ (last.failed /\ obs.series.n \in 1..(MAX_VERIFY_ATTEMPTS - 1)) =>
              InvalidOrExpired(last) /\ obs.newBlocks = {}
        /\ obs.blocked =>
              /\ last.status = 429 /\ ~last.marked /\ ~last.failed
              /\ obs.otpsSame /\ obs.rateSame

C9_Witness ==
    /\ last.op = "verify" /\ obs.blocked /\ last.status = 429
    /\ CorrectCodeStored(last)
    /\ hist.fails[last.email].n = MAX_VERIFY_ATTEMPTS
    /\ \E r \in rate : /\ r.identifier = last.email /\ r.endpoint = "verify-otp"
                       /\ r.attempt_count = MAX_VERIFY_ATTEMPTS
                       /\ r.blocked_until > last.now

EndpointThreshold(op) ==
    IF op = "send" THEN MAX_ATTEMPTS_PER_WINDOW ELSE MAX_VERIFY_ATTEMPTS

\* C10 as stated: on both endpoints a counted attempt sets blocked_until and
\* is answered Blocked only when the incremented count exceeds the threshold
\* (3 for send-otp, 5 for verify-otp); with a count up to the threshold it is
\* allowed and sets no block.
C10_BlocksOnlyAboveThreshold ==
    ReachedRecordAttempt(last) =>
        /\ AnsweredBlocked => last.attemptCount > EndpointThreshold(last.op)
        /\ last.attemptCount <= EndpointThreshold(last.op) => ~AnsweredBlocked

\* C10 amended: a counted send-otp attempt sets blocked_until (its time plus
\* 15 minutes) and is answered Blocked exactly when the incremented count
\* exceeds 3; a counted verify-otp attempt sets blocked_until (its time plus
\* 30 minutes) and is answered Blocked exactly when the incremented count
\* reaches 5; otherwise the attempt is allowed and sets no block.
C10_BlocksAtEndpointThreshold ==
    ReachedRecordAttempt(last) =>
        LET over == IF last.op = "send"
                    THEN last.attemptCount > MAX_ATTEMPTS_PER_WINDOW
                    ELSE last.attemptCount >= MAX_VERIFY_ATTEMPTS
            minutes == IF last.op = "send" THEN SEND_BLOCK_DURATION_MINUTES
                       ELSE VERIFY_BLOCK_DURATION_MINUTES
        IN  /\ over => last.status = 429 /\ obs.newBlocks = {last.now + minutes}
            /\ ~over => last.status # 429 /\ obs.newBlocks = {}

C10_Witness ==
    /\ last.op = "verify" /\ last.failed
    /\ last.attemptCount = MAX_VERIFY_ATTEMPTS
    /\ last.status = 429
    /\ obs.newBlocks = {last.now + VERIFY_BLOCK_DURATION_MINUTES}

(***************************************************************************)
(* Issuance and verification of requests served one after the other        *)
(* (checked under SpecOtpOne).                                             *)
(***************************************************************************)
OtpRowsOf(email) == {r \in otps : r.email = email}
VerifyRowsOf(email) ==
    {r \in rate : r.identifier = email /\ r.endpoint = "verify-otp"}

\* the send-otp request was let through by the rate limiter
SendAllowed(l) == l.op = "send" /\ l.status # 400 /\ l.status # 429

\* the failed verify-otp request was answered as the rate limiter prescribes
FailureAnswer(l) ==
    IF l.attemptCount >= MAX_VERIFY_ATTEMPTS THEN l.status = 429
    ELSE InvalidOrExpired(l)

\* C11: after an allowed send-otp request for an email, also one that follows
\* an earlier allowed request for the same email, the email has at most one
\* OTP record: the unverified one this request inserted; every earlier record
\* of the email has been deleted.
C11_OnlyLatestCodeRemains ==
    SendAllowed(last) =>
        /\ Cardinality(OtpRowsOf(last.email)) <= 1
        /\ last.stored =>
              \E r \in OtpRowsOf(last.email) :
                  /\ r.otp = last.otp /\ r.expires_at = last.expiresAt
                  /\ ~r.verified /\ r.created_at = last.now
        /\ ~last.stored => OtpRowsOf(last.email) = {}

C11_Witness ==
    /\ SendAllowed(last) /\ last.stored /\ obs.hadRow
    /\ obs.series.n = 2
    /\ Cardinality(OtpRowsOf(last.email)) = 1

\* C12 as stated: a verify with a wrong code for an email that has an issued,
\* unexpired code fails as invalid-or-expired and leaves the OTP records
\* unchanged; a verify with the correct code, before expiry and while not
\* blocked, marks the record verified and succeeds (when the account and
\* session services do not fail).
C12_WrongCodeThenCorrectCode ==
    last.op = "verify" =>
        /\ (obs.hadLive /\ ~obs.hadCorrect) =>
              InvalidOrExpired(last) /\ obs.otpsSame
        /\ (obs.hadCorrect /\ ~obs.blocked) =>
              /\ last.marked
              /\ \E r \in otps : r.id = last.otpData.id /\ r.verified
              /\ last.faults = 0 => last.status = 200

\* C12 amended: a verify with a wrong code for an email that has an issued,
\* unexpired code leaves the OTP records unchanged and fails: as rate-limited
\* when the email is blocked on arrival or this failure brings the attempt
\* count to 5, otherwise as invalid-or-expired; a verify with the correct
\* code, before expiry and while not blocked, marks the record verified and
\* succeeds (when the account and session services do not fail).
C12_WrongCodeFailsCorrectCodeVerifies ==
    last.op = "verify" =>
        /\ (obs.hadLive /\ ~obs.hadCorrect) =>
              /\ obs.otpsSame /\ ~last.marked
              /\ obs.blocked => last.status = 429 /\ ~last.failed
              /\ ~obs.blocked => last.failed /\ FailureAnswer(last)
        /\ (obs.hadCorrect /\ ~obs.blocked) =>
              /\ last.marked
              /\ \E r \in otps : r.id = last.otpData.id /\ r.verified
              /\ last.faults = 0 => last.status = 200

\* a correct code accepted after a counted failure
C12_Witness ==
    /\ last.op = "verify" /\ obs.hadCorrect /\ obs.window # {}
    /\ last.marked /\ last.status = 200
    /\ \E r \in otps : r.id = last.otpData.id /\ r.verified

\* the attempt of the request was recorded: a new row with count 1 when the
\* window held none, else the row of the window with its count raised by one
AttemptRecorded ==
    IF obs.window = {}
    THEN \E r \in VerifyRowsOf(last.email) :
            /\ r.attempt_count = 1
            /\ r.first_attempt_at = last.now /\ r.last_attempt_at = last.now
    ELSE \A q \in obs.window : \E r \in VerifyRowsOf(last.email) :
            /\ r.id = q.id /\ r.attempt_count = q.attempt_count + 1
            /\ r.last_attempt_at = last.now

\* C13 as stated: a verify for an email that has no OTP record is answered
\* invalid-or-expired and records one attempt for (email, verify-otp): a new
\* record with count 1 if the window holds none, else the existing record's
\* count raised by one.
C13_NoRecordCountsOneAttempt ==
    (last.op = "verify" /\ last.status # 0 /\ ~obs.hadRow) =>
        InvalidOrExpired(last) /\ AttemptRecorded

\* C13 amended: a verify for an email that has no OTP record, arriving while
\* the email is not blocked, records one attempt for (email, verify-otp) (a
\* new record with count 1 if the window holds none, else the existing
\* record's count raised by one) and is answered invalid-or-expired, or
\* rate-limited when the count reaches 5; arriving while the email is blocked
\* it is answered rate-limited and records nothing.
C13_NoRecordCountsOneAttemptUnlessBlocked ==
    (last.op = "verify" /\ last.status # 0 /\ ~obs.hadRow) =>
        /\ ~obs.blocked => last.failed /\ AttemptRecorded /\ FailureAnswer(last)
        /\ obs.blocked => last.status = 429 /\ obs.rateSame

C13_Witness ==
    /\ last.op = "verify" /\ ~obs.hadRow /\ last.failed
    /\ obs.window # {} /\ InvalidOrExpired(last)
    /\ \E r \in VerifyRowsOf(last.email) : r.attempt_count = 2

\* C14: when the mail service fails to deliver the code, the send-otp request
\* is answered with a failure, not with the success acknowledgement, and the
\* OTP record it stored stays in the table.
C14_MailFailureIsReported ==
    (last.op = "send" /\ last.pc = "done" /\ last.stored /\ ~last.delivered) =>
        /\ last.status # 200
        /\ \E r \in OtpRowsOf(last.email) : r.otp = last.otp /\ ~r.verified

\* C15: a verify request that finds an active block for (email, verify-otp) is
\* answered 429 before it reads or writes anything else: the OTP records of
\* every email, the rate-limit records and the accounts are as before, and no
\* block is written, so retrying does not extend the block.
C15_BlockedVerifyTouchesNothing ==
    (last.op = "verify" /\ obs.blocked) =>
        /\ last.status = 429
        /\ last.recent = NoRow /\ last.otpData = NoRow /\ last.matched = 0
        /\ obs.otpsSame /\ obs.rateSame /\ obs.accountsSame
        /\ obs.newBlocks = {}

\* a blocked request left an expired record in place that the cleanup of a
\* request let through would have deleted
C15_Witness ==
    /\ last.op = "verify" /\ obs.blocked /\ last.status = 429
    /\ \E r \in otps : r.expires_at < last.now
    /\ \E r \in VerifyRowsOf(last.email) : r.blocked_until > last.now

\* C16: a send-otp request answered 429, whether blocked on arrival or crossing
\* the threshold itself, deletes and inserts no OTP record and sends no mail; a
\* code issued earlier for the email is still there, unverified, until it
\* expires.
C16_RejectedSendKeepsCodes ==
    (last.op = "send" /\ last.status = 429) =>
        /\ obs.otpsSame /\ obs.accountsSame
        /\ ~last.stored /\ ~last.delivered
        /\ obs.hadLive => \E r \in OtpRowsOf(last.email) :
                              ~r.verified /\ r.expires_at > last.now

C16_Witness ==
    /\ last.op = "send" /\ last.status = 429 /\ obs.hadLive
    /\ obs.newBlocks # {}
    /\ \E r \in OtpRowsOf(last.email) : ~r.verified /\ r.expires_at > last.now

SendRowsOf(email) ==
    {r \in rate : r.identifier = email /\ r.endpoint = "send-otp"}

StorageError(l) == l.op = "send" /\ l.status = 500 /\ l.error = "Failed to generate OTP"

\* the attempt of the send-otp request is in the table: a new row with count 1
\* when the window held none, else the row of the window with its count
\* raised by one
SendAttemptRecorded ==
    IF obs.window = {}
    THEN \E r \in SendRowsOf(last.email) :
            /\ r.attempt_count = 1
            /\ r.first_attempt_at = last.now /\ r.last_attempt_at = last.now
    ELSE \A q \in obs.window : \E r \in SendRowsOf(last.email) :
            /\ r.id = q.id /\ r.attempt_count = q.attempt_count + 1
            /\ r.last_attempt_at = last.now

\* C23 as stated: the attempt of an issuance is recorded after the OTP record
\* has been stored and dispatched, so a send-otp request that fails with a
\* storage error has not changed the attempt count.
C23_StorageErrorLeavesCount ==
    StorageError(last) => obs.rateSame

\* C23 amended: the attempt of an issuance is recorded before the code is
\* drawn and stored: every send-otp request that passes validation and is not
\* blocked on arrival has raised the attempt count by one (or inserted a
\* record with count 1) when it ends, also when it ends with a storage error,
\* having stored nothing.
C23_AttemptRecordedBeforeStore ==
    /\ (last.op = "send" /\ last.status \notin {0, 400} /\ ~obs.blocked) =>
          /\ last.attemptCount >= 1
          /\ SendAttemptRecorded
    /\ StorageError(last) =>
          /\ ~last.stored /\ ~obs.rateSame
          /\ \E r \in SendRowsOf(last.email) :
                r.attempt_count = last.attemptCount /\ r.last_attempt_at = last.now

\* a request that failed with a storage error was counted as the second
\* attempt of its window
C23_Witness ==
    /\ StorageError(last) /\ obs.window # {}
    /\ \E r \in SendRowsOf(last.email) : r.attempt_count = 2
    /\ OtpRowsOf(last.email) = {}

\* C24: a successful verify returns the session credentials (the access token
\* and the refresh token) together with the identifier of the resolved
\* account.
C24_SuccessReturnsSessionAndAccount ==
    (last.op = "verify" /\ last.status = 200) =>
        /\ \E f \in last.body : f[2] = "access_token"
        /\ \E f \in last.body : f[2] = "refresh_token"
        /\ \E f \in last.body : f[2] = "userId"

\* what the caller sees of a request's answer
Answer(l) == [status |-> l.status, error |-> l.error, retry |-> l.retry]

\* the answers that a verify request for the email, made now with any code,
\* can get when it does not take the success path
FailingAnswers(email) ==
    {Answer(x.l) : x \in {y \in UNION {RunToEnd(b, clock) :
                                b \in UNION {VerifyBegin(World({}), email, c, clock) :
                                                c \in OtpCodes}} :
                            ~y.l.marked}}

\* the answer to a failing verify request as the rate-limit records of the
\* email and the time alone determine it
AnswerByRateState(email) ==
    LET blocked == {r \in VerifyRowsOf(email) :
                        r.blocked_until # NULL /\ r.blocked_until > clock}
        recent == {r \in VerifyRowsOf(email) :
                        r.last_attempt_at >= clock - VERIFY_WINDOW_MINUTES}
    IN  IF blocked # {}
        THEN {[status |-> 429, error |-> "Too many failed attempts",
               retry |-> r.blocked_until - clock] : r \in blocked}
        ELSE IF \E r \in recent : r.attempt_count + 1 >= MAX_VERIFY_ATTEMPTS
        THEN {[status |-> 429, error |-> "Too many failed attempts",
               retry |-> VERIFY_BLOCK_DURATION_MINUTES]}
        ELSE {[status |-> 400, error |-> "Invalid or expired OTP", retry |-> 0]}

\* C22: the failing verify requests for an email made from one rate-limit
\* state all get the same answer, whether the submitted code is wrong, has
\* expired or was used already: the answer is the one the rate-limit records
\* and the time determine, whatever the OTP records are.
C22_FailureAnswerHidesReason ==
    /\ Cardinality(FailingAnswers("a@b.com")) = 1
    /\ FailingAnswers("a@b.com") = AnswerByRateState("a@b.com")

\* a failed request carried a code used before, while another code of the
\* email is live and a third was never issued
C22_Witness ==
    /\ last.op = "verify" /\ last.failed /\ obs.replay /\ InvalidOrExpired(last)
    /\ \E r \in OtpRowsOf(last.email) : r.verified /\ r.otp = last.otp
    /\ VerifyRowsOf(last.email) # {}
    /\ Answer(last) \in FailingAnswers(last.email)

\* the records of the pair whose block has passed while the last attempt is
\* less than an hour ago
PassedBlocks(rows) ==
    {r \in rows : /\ r.blocked_until # NULL /\ r.blocked_until <= clock
                  /\ r.last_attempt_at > clock - 60}

\* the send-otp requests for the email made now, run to their response
SendRuns(email) ==
    UNION {RunToEnd(b, clock) : b \in SendBegin(World({}), email, clock)}

\* the verify requests for the email made now, with any code, that fail
FailedVerifyRuns(email) ==
    {x \in UNION {RunToEnd(b, clock) :
                    b \in UNION {VerifyBegin(World({}), email, c, clock) :
                                    c \in OtpCodes}} :
        x.l.failed}

\* the request x has blocked the record r again, for the given minutes from
\* now, and counted its attempt on top of the count the block left
BlockedAgain(x, r, minutes) ==
    /\ x.l.status = 429 /\ x.l.retry = minutes
    /\ \E q \in x.w.rate : /\ q.id = r.id
                           /\ q.attempt_count = r.attempt_count + 1
                           /\ q.blocked_until = clock + minutes

\* C31: a block does not reset the attempt count.  A send-otp request that
\* arrives when blocked_until has passed and the last attempt is less than an
\* hour ago is answered 429, sets a new block of 15 minutes and stores no
\* code; a failed verify request arriving so after a verify block is
\* answered 429 and sets a new block of 30 minutes.
C31_PassedBlockBlocksAgain ==
    /\ \A r \in PassedBlocks(SendRowsOf("a@b.com")) :
          \A x \in SendRuns("a@b.com") :
              BlockedAgain(x, r, 15) /\ ~x.l.stored /\ x.w.otps = otps
    /\ \A r \in PassedBlocks(VerifyRowsOf("a@b.com")) :
          \A x \in FailedVerifyRuns("a@b.com") : BlockedAgain(x, r, 30)

\* a failed verify request that arrived when the block of the 5th failure
\* had just passed was counted as the 6th and blocked again
C31_Witness ==
    /\ last.op = "verify" /\ last.failed /\ ~obs.blocked
    /\ last.attemptCount = MAX_VERIFY_ATTEMPTS + 1
    /\ last.status = 429
    /\ obs.newBlocks = {last.now + 30}

\* the verify request matched a code and marked it, and then failed
FailedAfterMatch(l) == l.op = "verify" /\ l.marked /\ l.status = 500

\* the verify requests for the email made now, with any code, run to their
\* response
VerifyRuns(email) ==
    UNION {RunToEnd(b, clock) :
            b \in UNION {VerifyBegin(World({}), email, c, clock) : c \in OtpCodes}}

\* C33: the code is consumed before the session exists.  When the account
\* creation or the session issuance fails after the code matched, the verify
\* request is answered with a server error and no session, the OTP record
\* stays verified and the rate-limit record stays cleared; a retry with the
\* same code fails as invalid-or-expired, and so does every other code: a
\* new issuance is needed.
C33_FailureAfterMatchConsumesCode ==
    FailedAfterMatch(last) =>
        /\ last.body = ErrorBody(last.error)
        /\ \A f \in last.body : f[1] \notin {"access_token", "refresh_token"}
        /\ \E r \in otps : r.id = last.otpData.id /\ r.otp = last.otp /\ r.verified
        /\ \A r \in VerifyRowsOf(last.email) : r.last_attempt_at < clock - 60
        /\ \A x \in VerifyRuns(last.email) :
              /\ ~x.l.marked /\ x.l.failed
              /\ InvalidOrExpired(x.l)

\* the session issuance failed for a code accepted after a counted failure
C33_Witness ==
    /\ FailedAfterMatch(last) /\ last.faults = 1
    /\ obs.window # {} /\ obs.hadCorrect
    /\ last.email \in authUsers
    /\ \E r \in otps : r.id = last.otpData.id /\ r.verified /\ r.expires_at > clock

(***************************************************************************)
(* The attempt window of send-otp (checked under SpecOtpWindow).           *)
(***************************************************************************)
\* the records of the pair with the latest last attempt
LatestAttempt(rows) ==
    {r \in rows : \A q \in rows : q.last_attempt_at <= r.last_attempt_at}

\* the send-otp requests for the email made now that the block check lets
\* through, run to their response
UnblockedSendRuns(email) ==
    IF \E r \in SendRowsOf(email) : r.blocked_until # NULL /\ r.blocked_until > clock
    THEN {}
    ELSE SendRuns(email)

\* C32: the attempt window of send-otp is anchored on the last attempt, not
\* on the first.  A request arriving less than an hour after the last
\* attempt is counted on top of that attempt's count, however long ago the
\* first attempt is, and is blocked when that makes 4 or more; a request
\* arriving more than an hour after the last attempt, or with no attempt
\* before it, is counted as attempt 1 in a new record.
C32_WindowFollowsLastAttempt ==
    \A x \in UnblockedSendRuns("a@b.com") :
        /\ \A r \in LatestAttempt(SendRowsOf("a@b.com")) :
              /\ clock - r.last_attempt_at < 60 =>
                    /\ x.l.attemptCount = r.attempt_count + 1
                    /\ \E q \in x.w.rate : /\ q.id = r.id
                                           /\ q.attempt_count = r.attempt_count + 1
                                           /\ q.first_attempt_at = r.first_attempt_at
                                           /\ q.last_attempt_at = clock
                    /\ x.l.attemptCount >= 4 <=> x.l.status = 429
              /\ clock - r.last_attempt_at > 60 =>
                    /\ x.l.attemptCount = 1 /\ x.l.status # 429
                    /\ \E q \in x.w.rate \ rate :
                          q.attempt_count = 1 /\ q.first_attempt_at = clock
        /\ SendRowsOf("a@b.com") = {} => x.l.attemptCount = 1 /\ x.l.status # 429

\* four requests half an hour apart: the 4th is blocked an hour and a half
\* after the first
C32_Witness ==
    /\ last.op = "send" /\ last.status = 429 /\ ~obs.blocked
    /\ last.attemptCount = 4
    /\ \E r \in SendRowsOf(last.email) :
          /\ r.attempt_count = 4
          /\ r.first_attempt_at < last.now - 60
          /\ r.blocked_until = last.now + 15

(***************************************************************************)
(* Cleanup of the rate-limit records (checked under SpecOtpDay).           *)
(***************************************************************************)
\* the requests for the email that, made now, get as far as the call of
\* cleanup_old_rate_limits, each with the database as it is at the call
CleanupCalls(email) ==
    {y \in UNION {RunUntil(b, clock, {"s_rpc", "v_rpc"}) :
                    b \in SendBegin(World({}), email, clock) \cup
                          UNION {VerifyBegin(World({}), email, c, clock) : c \in OtpCodes}} :
        y.l.pc \in {"s_rpc", "v_rpc"}}

\* every step of the flow before the cleanup has succeeded
FullySuccessful(l) ==
    IF l.op = "send" THEN l.stored /\ l.delivered ELSE l.marked

\* C28: the rate-limit cleanup deletes exactly the records whose last attempt
\* is more than 24 hours before now; it is called only at the end of an
\* issue or verify flow of which every step succeeded; it never deletes a
\* record whose blocked_until is still in the future.
C28_CleanupOnlyAfterFullSuccess ==
    \A y \in CleanupCalls("a@b.com") :
        /\ FullySuccessful(y.l)
        /\ \A z \in StepSet(y.w, y.l, clock) :
              /\ z.w.rate = {r \in y.w.rate :
                                ~(r.last_attempt_at < clock - 60 * CLEANUP_AGE_HOURS)}
              /\ \A r \in y.w.rate \ z.w.rate :
                    r.blocked_until = NULL \/ r.blocked_until <= clock

EndpointRows(tbl, endpoint) == {r \in tbl : r.endpoint = endpoint}

\* the request x has left the records of the endpoint as they were, but for
\* those it deleted as older than 24 hours when it ended in success
OnlyStaleDeleted(x, endpoint) ==
    /\ EndpointRows(x.w.rate, endpoint) \subseteq EndpointRows(rate, endpoint)
    /\ \A r \in EndpointRows(rate, endpoint) \ x.w.rate :
          /\ r.last_attempt_at < clock - 60 * 24
          /\ x.l.status = 200

\* C34 as stated: a verify request, successful or failed, never creates,
\* changes or deletes a send-otp record, and a send-otp request never
\* creates, changes or deletes a verify-otp record.
C34_EndpointsNeverTouchEachOther ==
    /\ \A x \in VerifyRuns("a@b.com") :
          EndpointRows(x.w.rate, "send-otp") = EndpointRows(rate, "send-otp")
    /\ \A x \in SendRuns("a@b.com") :
          EndpointRows(x.w.rate, "verify-otp") = EndpointRows(rate, "verify-otp")

\* C34 amended: a verify request never creates or changes a send-otp record
\* and a send-otp request never creates or changes a verify-otp record;
\* either deletes a record of the other endpoint only in the cleanup at the
\* end of a successful flow, and only one whose last attempt is more than 24
\* hours old.  So a successful login leaves the send-otp count of the last
\* 24 hours as it was.
C34_EndpointsShareOnlyTheCleanup ==
    /\ \A x \in VerifyRuns("a@b.com") : OnlyStaleDeleted(x, "send-otp")
    /\ \A x \in SendRuns("a@b.com") : OnlyStaleDeleted(x, "verify-otp")

\* a login that followed a failed attempt and two issuances: the verify-otp
\* record is cleared, the send-otp record still counts 2
C34_Witness ==
    /\ last.op = "verify" /\ last.status = 200 /\ obs.window # {}
    /\ VerifyRowsOf(last.email) = {}
    /\ \E r \in SendRowsOf(last.email) :
          r.attempt_count = 2 /\ r.last_attempt_at = last.now

(***************************************************************************)
(* Input validation (checked under SpecOtpSeq).                            *)
(***************************************************************************)
\* the number a string of decimal digits denotes
RECURSIVE DecimalValue(_)
DecimalValue(digits) ==
    IF digits = <<>> THEN 0
    ELSE 10 * DecimalValue(SubSeq(digits, 1, Len(digits) - 1)) + digits[Len(digits)]

SixDigitCode(code) ==
    /\ Len(code) = 6
    /\ \A i \in 1..Len(code) : code[i] \in 0..9
    /\ DecimalValue(code) \in 100000..999999

\* C29: every OTP record inserted by issuance has a code that is a
\* 6-character decimal string with a value in 100000..999999 and an expiry of
\* the issuance time plus 5 minutes, and is inserted with verified = false.
C29_IssuedRecordIsWellFormed ==
    /\ \A r \in otps :
          /\ SixDigitCode(r.otp)
          /\ r.expires_at = r.created_at + 5
    /\ (last.op = "send" /\ last.stored) =>
          \E r \in otps : /\ r.email = last.email /\ r.otp = last.otp
                           /\ ~r.verified
                           /\ r.created_at = last.now
                           /\ r.expires_at = last.now + 5

\* a record with the greatest code, issued after time 0
C29_Witness ==
    /\ last.op = "send" /\ last.stored /\ last.now > 0
    /\ \E r \in otps : /\ r.email = last.email /\ ~r.verified
                       /\ DecimalValue(r.otp) = 999999
                       /\ r.expires_at = last.now + 5

\* the verify requests that, made now, get as far as the lookup of the code,
\* each with the database as it is at the lookup
Lookups ==
    {y \in UNION {RunUntil(b, clock, {"v_lookup"}) :
                    b \in UNION {VerifyBegin(World({}), e, c, clock) :
                                    e \in Emails, c \in OtpCodes}} :
        y.l.pc = "v_lookup"}

\* C30: every verify request that passes validation and the block check
\* deletes, before it looks the code up, all OTP records whose expiry has
\* passed, those of other emails too, and no other record (the delete
\* statement not failing); so after such a request, ended in success or in
\* failure, no expired record of any email is left.
C30_VerifyPurgesExpiredOfEveryEmail ==
    /\ \A y \in Lookups :
          y.l.faults = 0 => y.w.otps = {r \in otps : ~(r.expires_at < clock)}
    /\ (last.op = "verify" /\ (last.failed \/ last.marked) /\ last.faults = 0) =>
          \A r \in otps : ~(r.expires_at < last.now)

\* a failed verify request for an email that never had a record found the
\* expired record of the other email and deleted it
C30_Witness ==
    /\ last.op = "verify" /\ last.email = "a@b.com" /\ last.failed /\ last.faults = 0
    /\ hist.sends["a@b.com"].n = 0 /\ hist.sends["c@d.com"].n > 0
    /\ ~obs.otpsSame
    /\ otps = {}

ValidationErrors ==
    {"Valid email is required", "Invalid email format", "Email and OTP are required"}

\* C20: a send-otp request whose email is missing or malformed, and a
\* verify-otp request without email or code, is answered 400 with a validation
\* error before any table is read or written: OTP records, rate-limit records,
\* accounts and profiles are as before.
C20_MalformedInputTouchesNothing ==
    /\ (last.op = "send" /\ last.email \notin Emails) =>
          last.status = 400 /\ last.error \in ValidationErrors
    /\ (last.op = "verify" /\ (last.email = "" \/ last.otp = <<>>)) =>
          last.status = 400 /\ last.error \in ValidationErrors
    /\ (last.status = 400 /\ last.error \in ValidationErrors) =>
          /\ obs.otpsSame /\ obs.rateSame /\ obs.accountsSame
          /\ last.recent = NoRow /\ last.attemptCount = 0 /\ ~last.stored

C20_Witness ==
    /\ last.op = "send" /\ last.email \notin Emails /\ last.email # ""
    /\ last.status = 400 /\ last.error = "Invalid email format"
    /\ otps # {} /\ rate # {}

(***************************************************************************)
(* One-time code properties of concurrent requests (checked under SpecOtp).*)
(***************************************************************************)
\* C6: at most one verify request per OTP record takes the success path
\* (marks the record verified and goes on to the account and the session),
\* however the requests carrying its code interleave.
C6_OneSuccessPerRecord ==
    \A p, q \in OtpProcs :
        (p # q /\ req[p].marked /\ req[q].marked) =>
            req[p].otpData.id # req[q].otpData.id

\* C7: a verify request never takes the success path on an OTP record whose
\* expiry is earlier than the time of the request, whatever the attempt count
\* and whether or not the cleanup of expired records removed the record.
C7_ExpiredNeverVerifies ==
    \A p \in OtpProcs :
        /\ (req[p].op = "verify" /\ req[p].marked) =>
              ~(req[p].otpData.expires_at < req[p].now)
        /\ (req[p].op = "verify" /\ req[p].pc = "done" /\ req[p].status = 200) =>
              req[p].marked

\* a request with the code of an expired record that the cleanup left in
\* the table has failed
C7_Witness ==
    \E p \in OtpProcs :
        /\ req[p].op = "verify" /\ req[p].pc = "done" /\ req[p].failed
        /\ \E r \in otps : /\ r.email = req[p].email /\ r.otp = req[p].otp
                           /\ ~r.verified /\ r.expires_at < req[p].now

\* the handler of p records its attempt in this step
RecordsAttempt(p) ==
    \/ req[p].pc = "v_fail" /\ req'[p].pc = "done"
    \/ req[p].pc = "s_record" /\ req'[p].pc \in {"s_delete", "done"}

RateRowsOf(tbl, l) ==
    {r \in tbl : /\ r.identifier = l.email
                 /\ r.endpoint = (IF l.op = "send" THEN "send-otp" ELSE "verify-otp")}

\* C25: the rate limiter's read-then-write is not atomic.  A request records
\* its attempt with what it read earlier, whatever the table holds by then:
\* it sets the count of the record it read to the count it read plus one, and
\* having read none it inserts a record with count 1 even next to one for
\* the same pair.  So two concurrent requests that read the same record
\* raise the stored count by one for two attempts, and two that read none
\* insert two records.
C25_RecordAttemptIsBlindWrite ==
    [][\A p \in OtpProcs :
          RecordsAttempt(p) =>
              IF req[p].recent.id # NULL
              THEN /\ {r.id : r \in rate'} = {r.id : r \in rate}
                   /\ \A r \in rate' :
                         r.id = req[p].recent.id =>
                            /\ r.attempt_count = req[p].recent.attempt_count + 1
                            /\ r.last_attempt_at = req[p].now
              ELSE /\ Cardinality(rate') = Cardinality(rate) + 1
                   /\ \E r \in RateRowsOf(rate', req[p]) \ rate :
                         r.attempt_count = 1 /\ rate' = rate \cup {r}]_vars

\* two failed verify requests read the same record and both recorded their
\* attempt: the stored count is one above what they read, for two attempts
C25_Witness ==
    \E p, q \in OtpProcs :
        /\ p # q
        /\ req[p].op = "verify" /\ req[q].op = "verify"
        /\ req[p].failed /\ req[p].pc = "done" /\ req[q].failed /\ req[q].pc = "done"
        /\ req[p].recent = req[q].recent /\ req[p].recent.id # NULL
        /\ \E r \in rate : /\ r.id = req[p].recent.id
                           /\ r.attempt_count = req[p].recent.attempt_count + 1

\* the step deletes the OTP record r for one of the two reasons a record is
\* deleted for: a verify request's cleanup finds it expired, or a send-otp
\* request purges the records of its email
DeletedForCause(r) ==
    /\ \A q \in otps' : q.id # r.id
    /\ \E p \in OtpProcs :
          /\ req'[p] # req[p]
          /\ \/ req[p].pc = "v_cleanup" /\ r.expires_at < req[p].at
             \/ req[p].pc = "s_delete" /\ r.email = req[p].email

\* C26: the verified flag of an OTP record is monotone: every step leaves a
\* verified record as it is, or deletes it in the expiry cleanup of a verify
\* request or in the purge of a send-otp request for its email; and the
\* record a verify request's lookup matches is unverified at the lookup.
C26_VerifiedIsMonotone ==
    [][/\ \A r \in otps : r.verified => (r \in otps' \/ DeletedForCause(r))
       /\ \A p \in OtpProcs :
             (req[p].pc = "v_lookup" /\ req'[p].pc = "v_mark") =>
                 \E r \in otps : r.id = req'[p].otpData.id /\ ~r.verified]_vars

\* a verify request carrying the code of a verified, unexpired record failed
\* and the record is still verified
C26_Witness ==
    \E p \in OtpProcs :
        /\ req[p].op = "verify" /\ req[p].pc = "done" /\ req[p].failed
        /\ req[p].matched = 0
        /\ \E r \in otps : /\ r.email = req[p].email /\ r.otp = req[p].otp
                           /\ r.verified /\ r.expires_at > req[p].now

\* the unverified, unexpired records of the email
UsableRows(email) ==
    {r \in otps : r.email = email /\ ~r.verified /\ r.expires_at > clock}

\* C27 as stated: in every reachable state, also after concurrent issuance
\* requests for one email have interleaved, at most one unverified and
\* unexpired OTP record exists per email.
C27_AtMostOneUsableRecord ==
    \A e \in Emails : Cardinality(UsableRows(e)) <= 1

\* C27 amended: at most one OTP record, so at most one unverified and
\* unexpired one, exists per email in every state reached without an
\* issuance request for the email purging between the purge and the insert
\* of another issuance request for it.
C27_AtMostOneUsableRecordUnlessRaced ==
    \A e \in Emails :
        e \notin hist.raced =>
            /\ Cardinality({r \in otps : r.email = e}) <= 1
            /\ Cardinality(UsableRows(e)) <= 1

\* two issuance requests in flight together, the second purging only after
\* the first had inserted: both stored their code and one record is left
C27_Witness ==
    /\ "a@b.com" \notin hist.raced
    /\ \A p \in {1, 2} : req[p].op = "send" /\ req[p].stored /\ req[p].email = "a@b.com"
    /\ Cardinality(UsableRows("a@b.com")) = 1

\* C18: when several unverified, unexpired records match the submitted email
\* and code, the verify request takes the most recently created one, marks
\* only that one verified and succeeds.
C18_NewestOfSeveralMatchesVerifies ==
    \A p \in OtpProcs :
        (req[p].op = "verify" /\ req[p].matched >= 2) =>
            /\ ~req[p].failed
            /\ req[p].otpData.id # NULL

====
